---- MODULE Spec2Model ----
(***************************************************************************)
(* A model of ixbrlparse.core: IXBRL.__init__ drives one parser            *)
(* (IXBRLParser for inline documents, XBRLParser for bare ones) through    *)
(* _get_schema, _get_contexts, _get_units, _get_nonnumeric, _get_numeric,  *)
(* and IXBRL.to_table flattens the extracted facts into rows.              *)
(*                                                                         *)
(* The BeautifulSoup tree is a record: the root markers, the root's        *)
(* attributes, the schemaRef, and two runs of elements in document order,  *)
(* `header` (what sits in ix:resources: contexts and units) and `body`     *)
(* (everything after it).  An element is [name, attrs, text, children].    *)
(* Python values that can be of several types (a fact's context, a table   *)
(* cell) carry a type tag `t`.                                             *)
(***************************************************************************)
EXTENDS Integers, Sequences, FiniteSets, TLC

VARIABLES soup, raise_on_error, pc, filetype, schema, namespaces,
          contexts, units, nonnumeric, numeric, errors, exc, table

vars == <<soup, raise_on_error, pc, filetype, schema, namespaces,
          contexts, units, nonnumeric, numeric, errors, exc, table>>

\* Bounds of the model: the longest header and body of a document.
MaxResources == 2
MaxFacts == 2

None == "None"
FILETYPE_IXBRL == "ixbrl"
FILETYPE_XBRL == "xbrl"

(***************************************************************************)
(* The tree-parse collaborator (bs4), as far as core.py uses it.           *)
(***************************************************************************)
NoAttrs == [a \in {} |-> ""]
EmptyMap == [a \in {} |-> None]

Tag(name, attrs, text, children) ==
    [name |-> name, attrs |-> attrs, text |-> text, children |-> children]

\* s.get(k): the attribute, or None
get(s, k) == IF k \in DOMAIN s.attrs THEN s.attrs[k] ELSE None

\* s[k] raises KeyError exactly when the attribute is absent
has(s, k) == k \in DOMAIN s.attrs

\* Python truthiness of an attribute value: None and "" are false
truthy(v) == v # None /\ v # ""

\* every descendant of a run of elements, in document order
RECURSIVE Flatten(_)
Flatten(es) ==
    IF es = <<>> THEN <<>>
    ELSE <<Head(es)>> \o Flatten(Head(es).children) \o Flatten(Tail(es))

\* find_all(names) below a run of elements, and find(names): its first or None
find_all(es, names) == SelectSeq(Flatten(es), LAMBDA e : e.name \in names)
find(es, names) ==
    LET r == find_all(es, names) IN IF r = <<>> THEN None ELSE r[1]
found(es, names) == find_all(es, names) # <<>>

\* the whole document in document order (soup.find_all, and the bare
\* grammar's soup.find("xbrl").find_all())
AllElements(sp) == Flatten(sp.head \o sp.header \o sp.body)

\* dict.get(k, default)
dictget(d, k, default) == IF k \in DOMAIN d THEN d[k] ELSE default

\* str.strip() and str.replace("\n", "") on the texts that occur in the documents
StripTable ==
    (" FAKETEST\nLIMITED " :> "FAKETEST\nLIMITED") @@
    (" iso4217:GBP " :> "iso4217:GBP")
strip(text) == dictget(StripTable, text, text)
NewlineTable == ("FAKETEST\nLIMITED" :> "FAKETEST LIMITED")
remove_newlines(text) == dictget(NewlineTable, text, text)

\* str.split(" ") on the root attribute values that occur in the documents
SplitTable ==
    ("http://www.xbrl.org/2003/instance http://www.xbrl.org/2003/xbrl-instance.xsd"
        :> <<"http://www.xbrl.org/2003/instance",
             "http://www.xbrl.org/2003/xbrl-instance.xsd">>)
split_space(text) == dictget(SplitTable, text, <<text>>)

\* " ".join(list)
RECURSIVE join_space(_)
join_space(l) ==
    IF l = <<>> THEN ""
    ELSE IF Len(l) = 1 THEN l[1]
    ELSE l[1] \o " " \o join_space(Tail(l))

(***************************************************************************)
(* ixbrlparse.components: the three record types core.py constructs.       *)
(***************************************************************************)
\* name.split(":", maxsplit=1) on the names that occur in the documents
NameParts ==
    ("uk-bus:EntityCurrentLegalOrRegisteredName" :>
        <<"uk-bus", "EntityCurrentLegalOrRegisteredName">>) @@
    ("uk-gaap:Turnover" :> <<"uk-gaap", "Turnover">>) @@
    ("CashBankInHand" :> <<"CashBankInHand">>) @@
    ("nonNumeric" :> <<"nonNumeric">>) @@
    ("nonFraction" :> <<"nonFraction">>) @@
    ("" :> <<"">>)

\* strptime(text, "%Y-%m-%d").date() on the dates that occur in the documents
DateOf ==
    ("2017-10-31" :> <<2017, 10, 31>>) @@
    ("2016-11-01" :> <<2016, 11, 1>>)

Pad2(n) == IF n < 10 THEN "0" \o ToString(n) ELSE ToString(n)
\* str(datetime.date)
DateStr(d) == ToString(d[1]) \o "-" \o Pad2(d[2]) \o "-" \o Pad2(d[3])

\* a Python value whose type the code does not fix carries its type
PyStr(x) == IF x = None THEN [t |-> "NoneType"] ELSE [t |-> "str", v |-> x]
Str(x) == [t |-> "str", v |-> x]
PyInt(n) == [t |-> "int", v |-> n]
PyObj(type, fields) == [t |-> type, v |-> fields]

ParsedDate(v) == IF truthy(v) THEN PyObj("date", DateOf[v]) ELSE PyStr(None)

ixbrlContext(id, entity, segments, instant, startdate, enddate) ==
    [t |-> "ixbrlContext", id |-> id, entity |-> entity, segments |-> segments,
     instant |-> ParsedDate(instant),
     startdate |-> ParsedDate(startdate),
     enddate |-> ParsedDate(enddate)]

SchemaOf(name) ==
    IF Len(NameParts[name]) = 2 THEN NameParts[name][1] ELSE "unknown"
LocalOf(name) ==
    IF Len(NameParts[name]) = 2 THEN NameParts[name][2] ELSE NameParts[name][1]

ixbrlNonNumeric(context, name, format_, value) ==
    [schema |-> SchemaOf(name), name |-> LocalOf(name), context |-> context,
     format |-> format_, value |-> Str(value)]

\* the registry of numeric transformation formats; None means no format
KnownFormats == {None, "numdotdecimal", "numcommadot", "zerodash", "nodash"}
ZeroFormats == {"zerodash", "nodash"}

\* the digits of the raw text, on the texts that occur in the documents
Digits == ("52,982" :> 52982) @@ ("1" :> 1) @@ ("-" :> 0)

RECURSIVE Pow10(_)
Pow10(n) == IF n = 0 THEN 1 ELSE 10 * Pow10(n - 1)

\* int(scale) on the scale attributes that occur in the documents
ScaleOf == ("0" :> 0) @@ ("3" :> 3)

\* the constructors raise: ixbrlNumeric raises NotImplementedError on a
\* format outside the registry, ixbrlNonNumeric never
ixbrlNumericRaises(attrs) == get([attrs |-> attrs], "format") \notin KnownFormats
ixbrlNonNumericRaises(context, name, format_, value) == FALSE

ixbrlNumeric(attrs) ==
    LET a(k, default) == IF k \in DOMAIN attrs THEN attrs[k] ELSE default
    IN  [schema |-> SchemaOf(a("name", "")), name |-> LocalOf(a("name", "")),
         context |-> a("context", None), unit |-> a("unit", None),
         format |-> a("format", None),
         value |-> PyInt(IF a("format", None) \in ZeroFormats THEN 0
                         ELSE (IF a("sign", "") = "-" THEN -1 ELSE 1)
                              * Digits[strip(a("text", ""))]
                              * Pow10(ScaleOf[a("scale", "0")]))]

(***************************************************************************)
(* The tag-name spellings core.py accepts.                                 *)
(***************************************************************************)
SchemaRefNames == {"link:schemaRef", "schemaRef"}
ContextNames == {"xbrli:context", "context"}
UnitNames == {"xbrli:unit", "unit"}
IdentifierNames == {"xbrli:identifier", "identifier"}
SegmentNames == {"xbrli:segment", "segment"}
InstantNames == {"xbrli:instant", "instant"}
StartDateNames == {"xbrli:startDate", "startDate"}
EndDateNames == {"xbrli:endDate", "endDate"}
MeasureNames == {"xbrli:measure", "measure"}
NonNumericNames == {"nonNumeric"}
NonFractionNames == {"nonFraction"}

\* attribute names of the root element that _get_schema keeps as namespaces
\* (k.startswith("xmlns") or ":" in k), on the names that occur
IsNamespaceAttr(k) == k \in {"xmlns", "xmlns:uk-bus", "xsi:schemaLocation"}

(***************************************************************************)
(* IXBRLParser and XBRLParser.                                             *)
(***************************************************************************)
IsInline == filetype = FILETYPE_IXBRL

\* _get_schema: the namespaces map
_get_schema_namespaces(sp) ==
    [k \in {a \in DOMAIN sp.attrs : IsNamespaceAttr(a)} |->
        split_space(sp.attrs[k])]

\* the elements _get_context_elements / _get_unit_elements yield
_get_context_elements(sp) ==
    IF IsInline THEN find_all(sp.header, ContextNames)
    ELSE find_all(AllElements(sp), ContextNames)

_get_unit_elements(sp) ==
    IF IsInline THEN find_all(sp.header, UnitNames)
    ELSE find_all(AllElements(sp), UnitNames)

\* the text of the first descendant of s with one of the names, stripped, or None
child_text(s, names) ==
    IF found(s.children, names) THEN strip(find(s.children, names).text)
    ELSE None

\* one segment member dict: {"tag": x.name, "value": x.text.strip(), **x.attrs}
segment_dict(x) == x.attrs @@ ("tag" :> x.name) @@ ("value" :> strip(x.text))

\* the ixbrlContext built from one context element that has an id
build_context(s) ==
    ixbrlContext(
        s.attrs["id"],
        [scheme |-> IF found(s.children, IdentifierNames)
                    THEN strip(find(s.children, IdentifierNames).attrs["scheme"])
                    ELSE None,
         identifier |-> child_text(s, IdentifierNames)],
        IF found(s.children, SegmentNames)
        THEN PyObj("list",
                   LET ms == Flatten(find(s.children, SegmentNames).children)
                   IN [i \in 1..Len(ms) |-> segment_dict(ms[i])])
        ELSE PyStr(None),
        child_text(s, InstantNames),
        child_text(s, StartDateNames),
        child_text(s, EndDateNames))

\* a faulty loop of _get_contexts: an id already in the map keeps its entry
RECURSIVE _get_contexts_loop_first_wins(_, _)
_get_contexts_loop_first_wins(es, acc) ==
    IF es = <<>> THEN [map |-> acc, exc |-> None]
    ELSE IF ~has(Head(es), "id") THEN [map |-> acc, exc |-> "KeyError"]
    ELSE _get_contexts_loop_first_wins(
            Tail(es),
            acc @@ (Head(es).attrs["id"] :> build_context(Head(es))))

\* the loop of _get_contexts: s["id"] raises KeyError on an element without id
RECURSIVE _get_contexts_loop(_, _)
_get_contexts_loop(es, acc) ==
    IF es = <<>> THEN [map |-> acc, exc |-> None]
    ELSE IF ~has(Head(es), "id") THEN [map |-> acc, exc |-> "KeyError"]
    ELSE _get_contexts_loop(
            Tail(es),
            (Head(es).attrs["id"] :> build_context(Head(es))) @@ acc)

\* the loop of _get_units
RECURSIVE _get_units_loop(_, _)
_get_units_loop(es, acc) ==
    IF es = <<>> THEN [map |-> acc, exc |-> None]
    ELSE IF ~has(Head(es), "id") THEN [map |-> acc, exc |-> "KeyError"]
    ELSE _get_units_loop(
            Tail(es),
            (Head(es).attrs["id"] :> child_text(Head(es), MeasureNames)) @@ acc)

\* a faulty lookup: self.contexts.get(ref), None for an unknown id
resolve_context_no_default(ref) == dictget(contexts, ref, PyStr(None))

\* self.contexts.get(ref, ref) and self.units.get(ref, ref)
resolve_context(ref) == dictget(contexts, ref, PyStr(ref))
resolve_unit(ref) == dictget(units, ref, ref)

\* what one pass of a fact loop has produced so far
NoFacts == [facts |-> <<>>, errors |-> errors, exc |-> None]

\* the fact with the position of the element it was built from (the fact
\* objects do not keep it; it is how extraction order is compared with
\* document order)
built(fact, i) == [element |-> i] @@ fact

\* a faulty try_append: the fact put at the front of the list
try_append_front(acc, i, raises, fact) ==
    IF raises
    THEN [acc EXCEPT
            !.errors = Append(@, [error |-> "NotImplementedError", element |-> i]),
            !.exc = IF raise_on_error THEN "NotImplementedError" ELSE None]
    ELSE [acc EXCEPT !.facts = <<built(fact, i)>> \o @]

\* try: append(constructor(...)) except: errors.append(...); raise if the
\* policy says so
try_append(acc, i, raises, fact) ==
    IF raises
    THEN [acc EXCEPT
            !.errors = Append(@, [error |-> "NotImplementedError", element |-> i]),
            !.exc = IF raise_on_error THEN "NotImplementedError" ELSE None]
    ELSE [acc EXCEPT !.facts = Append(@, built(fact, i))]

RECURSIVE IXBRLParser_get_nonnumeric(_, _, _)
IXBRLParser_get_nonnumeric(E, i, acc) ==
    IF i > Len(E) THEN acc
    ELSE IF E[i].name \notin NonNumericNames
    THEN IXBRLParser_get_nonnumeric(E, i + 1, acc)
    ELSE IF ~has(E[i], "contextRef") \/ ~has(E[i], "name")
    THEN [acc EXCEPT !.exc = "KeyError"]
    ELSE LET context == resolve_context(E[i].attrs["contextRef"])
             name == E[i].attrs["name"]
             format_ == get(E[i], "format")
             value == remove_newlines(strip(E[i].text))
             r == try_append(acc, i,
                    ixbrlNonNumericRaises(context, name, format_, value),
                    ixbrlNonNumeric(context, name, format_, value))
         IN  IF r.exc # None THEN r
             ELSE IXBRLParser_get_nonnumeric(E, i + 1, r)

RECURSIVE IXBRLParser_get_numeric(_, _, _)
IXBRLParser_get_numeric(E, i, acc) ==
    IF i > Len(E) THEN acc
    ELSE IF E[i].name \notin NonFractionNames
    THEN IXBRLParser_get_numeric(E, i + 1, acc)
    ELSE IF ~has(E[i], "contextRef") \/ ~has(E[i], "unitRef")
    THEN [acc EXCEPT !.exc = "KeyError"]
    ELSE LET element == E[i].attrs @@
                        ("text" :> E[i].text) @@
                        ("context" :> resolve_context(E[i].attrs["contextRef"])) @@
                        ("unit" :> resolve_unit(E[i].attrs["unitRef"]))
             r == try_append(acc, i, ixbrlNumericRaises(element),
                             ixbrlNumeric(element))
         IN  IF r.exc # None THEN r
             ELSE IXBRLParser_get_numeric(E, i + 1, r)

\* a faulty non-numeric filter: the unit reference not looked at
XBRLParser_is_nonnumeric_any_unit(s) == ~(~truthy(get(s, "contextRef")))

\* the bare grammar's filters: the elements each pass does not skip
XBRLParser_is_numeric(s) ==
    ~(~truthy(get(s, "contextRef")) \/ ~truthy(get(s, "unitRef")))
XBRLParser_is_nonnumeric(s) ==
    ~(~truthy(get(s, "contextRef")) \/ truthy(get(s, "unitRef")))

RECURSIVE XBRLParser_get_numeric(_, _, _)
XBRLParser_get_numeric(E, i, acc) ==
    IF i > Len(E) THEN acc
    ELSE IF ~XBRLParser_is_numeric(E[i])
    THEN XBRLParser_get_numeric(E, i + 1, acc)
    ELSE LET element == E[i].attrs @@
                        ("name" :> E[i].name) @@
                        ("text" :> E[i].text) @@
                        ("context" :> resolve_context(E[i].attrs["contextRef"])) @@
                        ("unit" :> resolve_unit(E[i].attrs["unitRef"]))
             r == try_append(acc, i, ixbrlNumericRaises(element),
                             ixbrlNumeric(element))
         IN  IF r.exc # None THEN r
             ELSE XBRLParser_get_numeric(E, i + 1, r)

RECURSIVE XBRLParser_get_nonnumeric(_, _, _)
XBRLParser_get_nonnumeric(E, i, acc) ==
    IF i > Len(E) THEN acc
    ELSE IF ~XBRLParser_is_nonnumeric(E[i])
    THEN XBRLParser_get_nonnumeric(E, i + 1, acc)
    ELSE LET context == resolve_context(E[i].attrs["contextRef"])
             name == E[i].name
             format_ == get(E[i], "format")
             value == remove_newlines(strip(E[i].text))
             r == try_append(acc, i,
                    ixbrlNonNumericRaises(context, name, format_, value),
                    ixbrlNonNumeric(context, name, format_, value))
         IN  IF r.exc # None THEN r
             ELSE XBRLParser_get_nonnumeric(E, i + 1, r)

(***************************************************************************)
(* IXBRL: classification, the calls of __init__, to_table.                 *)
(***************************************************************************)
\* a faulty _get_parser: the xbrl marker checked before the html marker
_get_parser_filetype_xbrl_first(sp) ==
    IF sp.xbrl THEN FILETYPE_XBRL
    ELSE IF sp.html THEN FILETYPE_IXBRL
    ELSE None

\* _get_parser: the grammar the root markers select, None when neither is there
_get_parser_filetype(sp) ==
    IF sp.html THEN FILETYPE_IXBRL
    ELSE IF sp.xbrl THEN FILETYPE_XBRL
    ELSE None

\* a faulty __init__: the units resolved after the non-numeric facts
after_units_late(call) ==
    CASE call = "_get_parser" -> "_get_schema"
      [] call = "_get_schema" -> "_get_contexts"
      [] call = "_get_contexts" -> "_get_nonnumeric"
      [] call = "_get_nonnumeric" -> "_get_units"
      [] call = "_get_units" -> "_get_numeric"
      [] call = "_get_numeric" -> "done"

\* the call IXBRL.__init__ makes after `call` returns
after(call) ==
    CASE call = "_get_parser" -> "_get_schema"
      [] call = "_get_schema" -> "_get_contexts"
      [] call = "_get_contexts" -> "_get_units"
      [] call = "_get_units" -> "_get_nonnumeric"
      [] call = "_get_nonnumeric" -> "_get_numeric"
      [] call = "_get_numeric" -> "done"

\* `call` returns, or raises e out of IXBRL.__init__
Return(call, e) ==
    /\ pc' = IF e = None THEN after(call) ELSE "raised"
    /\ exc' = e

_get_parser ==
    /\ pc = "_get_parser"
    /\ filetype' = _get_parser_filetype(soup)
    /\ Return("_get_parser",
              IF _get_parser_filetype(soup) = None
              THEN "Exception: Filetype not recognised" ELSE None)
    /\ UNCHANGED <<soup, raise_on_error, schema, namespaces, contexts, units,
                   nonnumeric, numeric, errors, table>>

_get_schema ==
    /\ pc = "_get_schema"
    /\ IF found(AllElements(soup), SchemaRefNames)
       THEN /\ schema' = get(find(AllElements(soup), SchemaRefNames), "xlink:href")
            /\ namespaces' = _get_schema_namespaces(soup)
            /\ Return("_get_schema", None)
       ELSE /\ Return("_get_schema", "AttributeError")
            /\ UNCHANGED <<schema, namespaces>>
    /\ UNCHANGED <<soup, raise_on_error, filetype, contexts, units,
                   nonnumeric, numeric, errors, table>>

_get_contexts ==
    /\ pc = "_get_contexts"
    /\ IF IsInline /\ ~soup.resources
       THEN /\ Return("_get_contexts", "AttributeError")
            /\ contexts' = EmptyMap
       ELSE LET r == _get_contexts_loop(_get_context_elements(soup), EmptyMap)
            IN  /\ contexts' = r.map
                /\ Return("_get_contexts", r.exc)
    /\ UNCHANGED <<soup, raise_on_error, filetype, schema, namespaces, units,
                   nonnumeric, numeric, errors, table>>

_get_units ==
    /\ pc = "_get_units"
    /\ IF IsInline /\ ~soup.resources
       THEN /\ Return("_get_units", "AttributeError")
            /\ units' = EmptyMap
       ELSE LET r == _get_units_loop(_get_unit_elements(soup), EmptyMap)
            IN  /\ units' = r.map
                /\ Return("_get_units", r.exc)
    /\ UNCHANGED <<soup, raise_on_error, filetype, schema, namespaces, contexts,
                   nonnumeric, numeric, errors, table>>

_get_nonnumeric ==
    /\ pc = "_get_nonnumeric"
    /\ LET r == IF IsInline
                THEN IXBRLParser_get_nonnumeric(AllElements(soup), 1, NoFacts)
                ELSE XBRLParser_get_nonnumeric(AllElements(soup), 1, NoFacts)
       IN  /\ nonnumeric' = r.facts
           /\ errors' = r.errors
           /\ Return("_get_nonnumeric", r.exc)
    /\ UNCHANGED <<soup, raise_on_error, filetype, schema, namespaces, contexts,
                   units, numeric, table>>

_get_numeric ==
    /\ pc = "_get_numeric"
    /\ LET r == IF IsInline
                THEN IXBRLParser_get_numeric(AllElements(soup), 1, NoFacts)
                ELSE XBRLParser_get_numeric(AllElements(soup), 1, NoFacts)
       IN  /\ numeric' = r.facts
           /\ errors' = r.errors
           /\ Return("_get_numeric", r.exc)
    /\ UNCHANGED <<soup, raise_on_error, filetype, schema, namespaces, contexts,
                   units, nonnumeric, table>>

\* to_table: the facts the `fields` argument selects
values(fields) ==
    IF fields = "nonnumeric" THEN nonnumeric
    ELSE IF fields = "numeric" THEN numeric
    ELSE nonnumeric \o numeric

\* "{} {} {}".format(tag, dimension, value).strip() of one segment member
segment_text(sg) ==
    strip(dictget(sg, "tag", "") \o " " \o dictget(sg, "dimension", None)
          \o " " \o dictget(sg, "value", None))

RECURSIVE segment_columns(_, _)
segment_columns(segs, i) ==
    IF i > Len(segs) THEN NoAttrs
    ELSE segment_columns(segs, i + 1) @@
         (("segment:" \o ToString(i - 1)) :> Str(segment_text(segs[i])))

\* a faulty segments dict: no segment:0 column without segments
segments_of_no_default(context) ==
    IF context.segments.t = "list" /\ context.segments.v # <<>>
    THEN segment_columns(context.segments.v, 1)
    ELSE NoAttrs

\* the segments dict of one fact: a list that is not empty is truthy
segments_of(context) ==
    IF context.segments.t = "list" /\ context.segments.v # <<>>
    THEN segment_columns(context.segments.v, 1)
    ELSE ("segment:0" :> Str(""))

date_cell(d) == IF d.t = "date" THEN Str(DateStr(d.v)) ELSE PyStr(None)

\* a faulty schema column: the list of URIs not joined
to_table_schema_no_join(v) ==
    PyObj("list", dictget(namespaces, "xmlns:" \o v.schema, <<v.schema>>))

to_table_schema(v) ==
    Str(join_space(dictget(namespaces, "xmlns:" \o v.schema, <<v.schema>>)))

to_table_row(v) ==
    segments_of(v.context) @@
    [schema |-> to_table_schema(v),
     name |-> Str(v.name),
     value |-> v.value,
     unit |-> IF "unit" \in DOMAIN v THEN PyStr(v.unit) ELSE PyStr(None),
     instant |-> date_cell(v.context.instant),
     startdate |-> date_cell(v.context.startdate),
     enddate |-> date_cell(v.context.enddate)]

\* the loop of to_table: v.context.segments raises AttributeError when the
\* fact carries the raw reference (a str) for its context
RECURSIVE to_table_loop(_, _)
to_table_loop(vs, ret) ==
    IF vs = <<>> THEN [ret |-> ret, exc |-> None]
    ELSE IF Head(vs).context.t # "ixbrlContext"
    THEN [ret |-> <<>>, exc |-> "AttributeError"]
    ELSE to_table_loop(Tail(vs), Append(ret, to_table_row(Head(vs))))

NoTable == [fields |-> None, ret |-> <<>>, exc |-> None]

to_table ==
    /\ pc = "done"
    /\ \E fields \in {"numeric", "nonnumeric", "all"} :
          table' = [fields |-> fields] @@ to_table_loop(values(fields), <<>>)
    /\ UNCHANGED <<soup, raise_on_error, pc, filetype, schema, namespaces,
                   contexts, units, nonnumeric, numeric, errors, exc>>

Next ==
    \/ _get_parser
    \/ _get_schema
    \/ _get_contexts
    \/ _get_units
    \/ _get_nonnumeric
    \/ _get_numeric
    \/ to_table

(***************************************************************************)
(* The documents: the elements they are made of, and the families of       *)
(* documents each specification starts from.                               *)
(***************************************************************************)
RootAttrs ==
    ("xmlns:uk-bus" :> "http://xbrl.frc.org.uk/cd/2014-09-01/business") @@
    ("xsi:schemaLocation" :>
        "http://www.xbrl.org/2003/instance http://www.xbrl.org/2003/xbrl-instance.xsd") @@
    ("lang" :> "en")

SchemaRef ==
    Tag("link:schemaRef",
        ("xlink:href" :> "https://xbrl.frc.org.uk/FRS-102/2014-09-01/FRS-102-2014-09-01.xsd"),
        "", <<>>)

Identifier ==
    Tag("xbrli:identifier", ("scheme" :> "http://www.companieshouse.gov.uk/"),
        "02345678", <<>>)
Member(dimension, value) ==
    Tag("xbrldi:explicitMember", ("dimension" :> dimension), value, <<>>)
Segment(members) == Tag("xbrli:segment", NoAttrs, "", members)
Instant == Tag("xbrli:period", NoAttrs, "",
               <<Tag("xbrli:instant", NoAttrs, "2017-10-31", <<>>)>>)
Duration == Tag("xbrli:period", NoAttrs, "",
                <<Tag("xbrli:startDate", NoAttrs, "2016-11-01", <<>>),
                  Tag("xbrli:endDate", NoAttrs, "2017-10-31", <<>>)>>)
\* a context element: `segment` is <<>> or one segment element
ContextElement(name, attrs, segment, period) ==
    Tag(name, attrs, "",
        <<Tag("xbrli:entity", NoAttrs, "", <<Identifier>> \o segment), period>>)

CtxNoId == ContextElement("xbrli:context", NoAttrs, <<>>, Instant)
CtxC1 == ContextElement("xbrli:context", ("id" :> "c1"), <<>>, Instant)
CtxC2Seg ==
    ContextElement("context", ("id" :> "c2"),
        <<Segment(<<Member("uk-bus:AccountsTypeDimension", "uk-bus:FullAccounts")>>)>>,
        Duration)
CtxC2Seg2 ==
    ContextElement("xbrli:context", ("id" :> "c2"),
        <<Segment(<<Member("uk-bus:AccountsTypeDimension", "uk-bus:FullAccounts"),
                    Member("uk-bus:EntityOfficersDimension", "uk-bus:Director1")>>)>>,
        Duration)

UnitGBP ==
    Tag("xbrli:unit", ("id" :> "u1"), "",
        <<Tag("xbrli:measure", NoAttrs, " iso4217:GBP ", <<>>)>>)
UnitShares ==
    Tag("unit", ("id" :> "u1"), "", <<Tag("measure", NoAttrs, "shares", <<>>)>>)
UnitNoMeasure == Tag("unit", ("id" :> "u1"), "", <<>>)
UnitNoId ==
    Tag("xbrli:unit", NoAttrs, "", <<Tag("xbrli:measure", NoAttrs, "shares", <<>>)>>)

\* an attribute map that leaves out the attributes given as None
Attrs(pairs) ==
    [k \in {q[1] : q \in {q \in pairs : q[2] # None}} |->
        (CHOOSE q \in pairs : q[1] = k)[2]]

\* inline fact elements
NonNumericElement(contextRef) ==
    Tag("nonNumeric",
        Attrs({<<"name", "uk-bus:EntityCurrentLegalOrRegisteredName">>,
               <<"contextRef", contextRef>>}),
        " FAKETEST\nLIMITED ", <<>>)
NonFractionElement(contextRef, unitRef, format) ==
    Tag("nonFraction",
        Attrs({<<"name", "uk-gaap:Turnover">>, <<"contextRef", contextRef>>,
               <<"unitRef", unitRef>>, <<"format", format>>,
               <<"scale", "3">>, <<"sign", "-">>}),
        "52,982", <<>>)
\* an element of a bare document
ItemElement(contextRef, unitRef, format) ==
    Tag("CashBankInHand",
        Attrs({<<"contextRef", contextRef>>, <<"unitRef", unitRef>>,
               <<"format", format>>}),
        "1", <<>>)

\* every sequence over S of length at most n
SeqsUpTo(S, n) == UNION {[1..k -> S] : k \in 0..n}

\* the documents with the given root markers <<html, xbrl>>, shells
\* <<head, resources>>, and header and body elements
Documents(Roots, Shells, HeaderElements, BodyElements) ==
    {[html |-> r[1], xbrl |-> r[2], attrs |-> RootAttrs,
      head |-> sh[1], resources |-> sh[2], header |-> h, body |-> b] :
        r \in Roots, sh \in Shells,
        h \in SeqsUpTo(HeaderElements, MaxResources),
        b \in SeqsUpTo(BodyElements, MaxFacts)}

\* IXBRL(f, raise_on_error) is called on a document: the state as __init__
\* starts, the parsed tree in hand
InitOn(docs) ==
    /\ soup \in docs
    /\ raise_on_error \in BOOLEAN
    /\ pc = "_get_parser"
    /\ filetype = None
    /\ schema = None
    /\ namespaces = EmptyMap
    /\ contexts = EmptyMap
    /\ units = EmptyMap
    /\ nonnumeric = <<>>
    /\ numeric = <<>>
    /\ errors = <<>>
    /\ exc = None
    /\ table = NoTable

AllRoots == BOOLEAN \X BOOLEAN
KnownRoots == {<<TRUE, FALSE>>, <<FALSE, TRUE>>}
WellFormed == {<<(<<SchemaRef>>), TRUE>>}
AllShells == {<<(<<SchemaRef>>), TRUE>>, <<(<<>>), TRUE>>, <<(<<SchemaRef>>), FALSE>>}

\* documents of every root kind and shell, with facts that resolve, do not
\* resolve, lack a reference or carry an unknown format
Init ==
    InitOn(Documents(AllRoots, AllShells, {CtxC1, UnitGBP},
        {NonNumericElement("c1"), NonNumericElement(None),
         NonFractionElement("c1", "u1", "numcommadot"),
         NonFractionElement("c1", "u1", "numwordsen"),
         NonFractionElement("c1", None, "numcommadot")}))
Spec == Init /\ [][Next]_vars

\* bare documents whose elements carry, carry empty or lack each reference
SpecBareInit ==
    InitOn(Documents({<<FALSE, TRUE>>}, WellFormed, {CtxC1, UnitGBP},
        {ItemElement(c, u, None) : c \in {None, "", "c1"}, u \in {None, "", "u1"}}
        \cup {ItemElement("c1", "u1", "numwordsen")}))
SpecBare == SpecBareInit /\ [][Next]_vars

\* documents whose contexts have no, one and two segment members
SpecTableInit ==
    InitOn(Documents(KnownRoots, WellFormed, {CtxC1, CtxC2Seg, CtxC2Seg2},
        {NonNumericElement("c1"), NonNumericElement("c2"),
         NonFractionElement("c1", "u1", "numcommadot"),
         NonFractionElement("c2", "u1", "numcommadot")}))
SpecTable == SpecTableInit /\ [][Next]_vars

\* documents whose contexts and units lack ids or share them
SpecResourcesInit ==
    InitOn(Documents(KnownRoots, WellFormed,
        {CtxNoId, CtxC2Seg, CtxC2Seg2, UnitGBP, UnitShares, UnitNoId},
        {NonNumericElement("c2"), NonFractionElement("c2", "u1", "numcommadot")}))
SpecResources == SpecResourcesInit /\ [][Next]_vars

\* documents whose resources are contexts that share an id followed by units
\* that share an id, and whose facts reference those ids
DuplicateDocuments ==
    {[d EXCEPT !.header = cs \o us] :
        d \in Documents(KnownRoots, WellFormed, {},
                {NonNumericElement("c2"),
                 NonFractionElement("c2", "u1", "numcommadot")}),
        cs \in SeqsUpTo({CtxC2Seg, CtxC2Seg2}, MaxResources),
        us \in SeqsUpTo({UnitGBP, UnitShares}, MaxResources)}
SpecDuplicatesInit == InitOn(DuplicateDocuments)
SpecDuplicates == SpecDuplicatesInit /\ [][Next]_vars

(***************************************************************************)
(* The properties.                                                         *)
(***************************************************************************)
Elements == AllElements(soup)
Range(f) == {f[i] : i \in DOMAIN f}
ShellWellFormed == soup.head = <<SchemaRef>> /\ soup.resources
HeaderHasIds == \A i \in 1..Len(soup.header) : has(soup.header[i], "id")
Increasing(facts) ==
    \A j, k \in 1..Len(facts) : j < k => facts[j].element < facts[k].element

\* an inline fact element that is complete, and one that lacks only its
\* contextRef
CompleteBut(e, missing) ==
    /\ \A a \in {"contextRef", "name"} \ missing : has(e, a)
    /\ e.name \in NonFractionNames =>
          /\ \A a \in {"unitRef"} \ missing : has(e, a)
          /\ get(e, "format") \in KnownFormats
ValidFact(e) == CompleteBut(e, {})
LacksContextRef(e) == ~has(e, "contextRef") /\ CompleteBut(e, {"contextRef"})

\* Scenario D: an inline document of valid facts plus one fact element
\* without contextRef, parsed under collect-on-error
ScenarioD ==
    /\ filetype = FILETYPE_IXBRL
    /\ ShellWellFormed /\ HeaderHasIds
    /\ Cardinality({i \in 1..Len(soup.body) : LacksContextRef(soup.body[i])}) = 1
    /\ \A i \in 1..Len(soup.body) :
          ValidFact(soup.body[i]) \/ LacksContextRef(soup.body[i])
NValid == Cardinality({i \in 1..Len(soup.body) : ValidFact(soup.body[i])})

\* C1: under collect-on-error, a document of N valid facts and one fact
\* without contextRef parses without an exception, yields exactly the N
\* facts and records exactly one error.
C1_CollectMissingContextRef ==
    (ScenarioD /\ ~raise_on_error) =>
        /\ pc # "raised"
        /\ pc = "done" =>
              /\ Len(nonnumeric) + Len(numeric) = NValid
              /\ Len(errors) = 1

\* C2: under raise-on-error, when fact extraction fails on an element the
\* error is in the error list as the parse raises, contexts and units are
\* complete, and the fact lists hold only facts of elements before the
\* failing one.
C2_RaiseAppendsThenPropagates ==
    (raise_on_error /\ filetype # None /\ ShellWellFormed /\ HeaderHasIds
        /\ pc = "raised") =>
        /\ Len(errors) = 1
        /\ exc = errors[1].error
        /\ \A e \in Range(_get_context_elements(soup)) : e.attrs["id"] \in DOMAIN contexts
        /\ \A e \in Range(_get_unit_elements(soup)) : e.attrs["id"] \in DOMAIN units
        /\ \A f \in Range(numeric) : f.element < errors[1].element

\* C3: an html marker selects the inline grammar, also beside an xbrl
\* marker; an xbrl marker alone selects the bare grammar; with neither the
\* parse raises the unrecognised-document error under both policies, with
\* nothing extracted and no error recorded.
C3_Classification ==
    pc # "_get_parser" =>
        /\ soup.html => filetype = FILETYPE_IXBRL
        /\ (~soup.html /\ soup.xbrl) => filetype = FILETYPE_XBRL
        /\ (~soup.html /\ ~soup.xbrl) =>
              /\ pc = "raised"
              /\ exc = "Exception: Filetype not recognised"
              /\ filetype = None
              /\ schema = None /\ namespaces = EmptyMap
              /\ contexts = EmptyMap /\ units = EmptyMap
              /\ nonnumeric = <<>> /\ numeric = <<>> /\ errors = <<>>
        /\ (soup.html \/ soup.xbrl) =>
              exc # "Exception: Filetype not recognised"
C3_Witness ==
    /\ pc = "raised" /\ ~soup.html /\ ~soup.xbrl /\ ~raise_on_error
    /\ soup.body # <<>>

\* the positions of the elements each fact pass takes as candidates
NonNumericPositions ==
    {i \in 1..Len(Elements) :
        IF IsInline THEN Elements[i].name \in NonNumericNames
        ELSE truthy(get(Elements[i], "contextRef")) /\ ~truthy(get(Elements[i], "unitRef"))}
NumericPositions ==
    {i \in 1..Len(Elements) :
        IF IsInline THEN Elements[i].name \in NonFractionNames
        ELSE truthy(get(Elements[i], "contextRef")) /\ truthy(get(Elements[i], "unitRef"))}
ElementsOf(facts) == {facts[j].element : j \in 1..Len(facts)}

\* C4 (as claimed): the facts of both kinds together, as to_table lists
\* them, are in document order.
C4_DocumentOrderAcrossKinds == Increasing(values("all"))

\* C4 (amended): each of the two fact lists is in document order and, once
\* the parse is done, holds the fact of every candidate of its kind that did
\* not fail; to_table lists the non-numeric facts first and the numeric
\* facts after them.
C4_OrderWithinKind ==
    /\ Increasing(nonnumeric)
    /\ Increasing(numeric)
    /\ pc = "done" =>
          /\ ElementsOf(nonnumeric) = NonNumericPositions
          /\ ElementsOf(numeric) \cup ElementsOf(errors) = NumericPositions
    /\ (table.fields = "all" /\ table.exc = None) =>
          /\ Len(table.ret) = Len(nonnumeric) + Len(numeric)
          /\ \A j \in 1..Len(table.ret) :
                table.ret[j].value.t = IF j <= Len(nonnumeric) THEN "str" ELSE "int"
C4_Witness ==
    /\ nonnumeric # <<>> /\ numeric # <<>>
    /\ numeric[1].element < nonnumeric[1].element
    /\ table.fields = "all" /\ Len(table.ret) = 2

\* C5: a context element without id is skipped and recorded: the contexts
\* after it are still resolved, and the error list gains one entry, the
\* error propagating only under raise-on-error.
C5_ContextWithoutIdSkipped ==
    LET es == _get_context_elements(soup)
        passed == pc \notin {"_get_parser", "_get_schema", "_get_contexts"}
    IN  (filetype # None /\ ShellWellFormed /\ passed
            /\ \E i \in 1..Len(es) : ~has(es[i], "id")) =>
            /\ ~raise_on_error => pc # "raised"
            /\ \A i \in 1..Len(es) :
                  has(es[i], "id") => es[i].attrs["id"] \in DOMAIN contexts
            /\ Len(errors) >= Cardinality({i \in 1..Len(es) : ~has(es[i], "id")})

FixedColumns ==
    {"schema", "name", "value", "unit", "instant", "startdate", "enddate"}
SegmentKeys(n) == {"segment:" \o ToString(i) : i \in 0..(n - 1)}
SegmentCount(v) ==
    IF v.context.segments.t = "list" THEN Len(v.context.segments.v) ELSE 0
TableReturned == table.fields # None /\ table.exc = None

\* C6 (as claimed): all rows of one to_table call have the same keys.
C6_UniformKeys ==
    TableReturned =>
        \A j, k \in 1..Len(table.ret) : DOMAIN table.ret[j] = DOMAIN table.ret[k]

\* C6 (amended): the keys of a row are the seven fixed columns and
\* segment:0 .. segment:(n-1), n the number of segment members of the fact's
\* context and 1 when it has none; rows whose contexts have equally many
\* members, or none and one, have the same keys.
C6_KeysBySegmentCount ==
    TableReturned =>
        LET vs == values(table.fields)
            n(j) == IF SegmentCount(vs[j]) = 0 THEN 1 ELSE SegmentCount(vs[j])
        IN  /\ Len(table.ret) = Len(vs)
            /\ \A j \in 1..Len(vs) :
                  DOMAIN table.ret[j] = FixedColumns \cup SegmentKeys(n(j))
            /\ \A j, k \in 1..Len(vs) :
                  n(j) = n(k) => DOMAIN table.ret[j] = DOMAIN table.ret[k]
C6_Witness ==
    /\ TableReturned
    /\ \E j, k \in 1..Len(table.ret) :
          /\ SegmentCount(values(table.fields)[j]) = 0
          /\ SegmentCount(values(table.fields)[k]) = 1
          /\ DOMAIN table.ret[j] = DOMAIN table.ret[k]

\* C7: every row of to_table, whatever the kind asked for, has the seven
\* fixed columns and at least one segment column, segment:0 being "" when
\* the context has no segments, and every value is a str, a number or None.
C7_RowsFlat ==
    TableReturned =>
        \A j \in 1..Len(table.ret) :
            LET row == table.ret[j]
                v == values(table.fields)[j]
            IN  /\ FixedColumns \subseteq DOMAIN row
                /\ DOMAIN row \ FixedColumns # {}
                /\ DOMAIN row \ FixedColumns \subseteq SegmentKeys(Len(Elements))
                /\ SegmentCount(v) = 0 => row["segment:0"] = Str("")
                /\ \A c \in DOMAIN row : row[c].t \in {"str", "int", "NoneType"}
C7_Witness ==
    /\ TableReturned /\ table.fields = "all"
    /\ \E j, k \in 1..Len(table.ret) :
          /\ table.ret[j].value.t = "int" /\ "segment:1" \in DOMAIN table.ret[j]
          /\ table.ret[k].value.t = "str" /\ table.ret[k]["segment:0"] = Str("")

\* C8: every extracted fact carries the Context its contextRef names, or
\* the raw contextRef when no context has that id, and likewise its unit;
\* once the parse is done no candidate with an unknown reference is missing
\* from the facts unless its constructor failed.
C8_UnresolvedCarriedRaw ==
    LET ctx(i) == LET ref == Elements[i].attrs["contextRef"]
                  IN  IF ref \in DOMAIN contexts THEN contexts[ref] ELSE Str(ref)
        unit(i) == LET ref == Elements[i].attrs["unitRef"]
                   IN  IF ref \in DOMAIN units THEN units[ref] ELSE ref
    IN  /\ \A j \in 1..Len(nonnumeric) :
              nonnumeric[j].context = ctx(nonnumeric[j].element)
        /\ \A j \in 1..Len(numeric) :
              /\ numeric[j].context = ctx(numeric[j].element)
              /\ numeric[j].unit = unit(numeric[j].element)
        /\ pc = "done" =>
              /\ NonNumericPositions \subseteq ElementsOf(nonnumeric)
              /\ \A i \in NumericPositions :
                    get(Elements[i], "format") \in KnownFormats => i \in ElementsOf(numeric)
C8_Witness ==
    /\ pc = "done"
    /\ \E j \in 1..Len(numeric) :
          /\ numeric[j].context = Str("c1")
          /\ numeric[j].unit = "iso4217:GBP"
    /\ \E j \in 1..Len(nonnumeric) : nonnumeric[j].context = Str("c1")

\* C9: in the bare grammar, once the parse is done, an element is a numeric
\* candidate iff it carries a context and a unit reference, a non-numeric
\* candidate iff it carries a context reference and no unit reference, and
\* yields neither fact nor error iff it carries no context reference; no
\* element is ever a candidate of both kinds.  (An attribute carries a
\* reference when it is present and not empty.)
C9_BareClassification ==
    filetype = FILETYPE_XBRL =>
        LET num == ElementsOf(numeric) \cup ElementsOf(errors)
            non == ElementsOf(nonnumeric)
            c(i) == truthy(get(Elements[i], "contextRef"))
            u(i) == truthy(get(Elements[i], "unitRef"))
        IN  /\ num \cap non = {}
            /\ pc = "done" =>
                  \A i \in 1..Len(Elements) :
                      /\ i \in num <=> (c(i) /\ u(i))
                      /\ i \in non <=> (c(i) /\ ~u(i))
                      /\ (i \notin num /\ i \notin non) <=> ~c(i)
C9_Witness ==
    /\ filetype = FILETYPE_XBRL /\ pc = "done"
    /\ numeric # <<>> /\ nonnumeric # <<>>
    /\ \E i \in 1..Len(Elements) : Elements[i].name \in ContextNames

\* C10: while a fact pass is about to run or has run, every context and
\* unit element of the document is in the maps, and the maps no longer
\* change.
FactsStarted == pc \in {"_get_nonnumeric", "_get_numeric", "done"}
MapsComplete ==
    /\ \A e \in Range(_get_context_elements(soup)) :
          has(e, "id") /\ e.attrs["id"] \in DOMAIN contexts
    /\ \A e \in Range(_get_unit_elements(soup)) :
          has(e, "id") /\ e.attrs["id"] \in DOMAIN units
C10_MapsBeforeFacts ==
    /\ [](FactsStarted => MapsComplete)
    /\ [][(nonnumeric' # nonnumeric \/ numeric' # numeric \/ errors' # errors
            \/ FactsStarted)
          => (MapsComplete /\ contexts' = contexts /\ units' = units)]_vars
C10_Witness ==
    /\ pc = "done" /\ contexts # EmptyMap /\ units # EmptyMap
    /\ nonnumeric # <<>> /\ numeric # <<>>

\* C11: once the pass over the contexts (units) has completed, the map has
\* one entry for each id among the context (unit) elements and that entry is
\* built from the last element in document order carrying the id; every
\* fact whose reference is such an id holds that last definition.
IdsOf(es) == {es[i].attrs["id"] : i \in {i \in 1..Len(es) : has(es[i], "id")}}
LastWith(es, id) ==
    LET at == {i \in 1..Len(es) : has(es[i], "id") /\ es[i].attrs["id"] = id}
    IN  es[CHOOSE i \in at : \A k \in at : k <= i]
ContextsDone == pc \in {"_get_units", "_get_nonnumeric", "_get_numeric", "done"}
UnitsDone == pc \in {"_get_nonnumeric", "_get_numeric", "done"}
LastContext(id) == build_context(LastWith(_get_context_elements(soup), id))
LastUnit(id) == child_text(LastWith(_get_unit_elements(soup), id), MeasureNames)
C11_LastDefinitionWins ==
    LET cids == IdsOf(_get_context_elements(soup))
        uids == IdsOf(_get_unit_elements(soup))
        cref(f) == Elements[f.element].attrs["contextRef"]
        uref(f) == Elements[f.element].attrs["unitRef"]
    IN  /\ ContextsDone =>
              /\ DOMAIN contexts = cids
              /\ \A id \in cids : contexts[id] = LastContext(id)
        /\ UnitsDone =>
              /\ DOMAIN units = uids
              /\ \A id \in uids : units[id] = LastUnit(id)
        /\ \A j \in 1..Len(nonnumeric) :
              cref(nonnumeric[j]) \in cids =>
                  nonnumeric[j].context = LastContext(cref(nonnumeric[j]))
        /\ \A j \in 1..Len(numeric) :
              /\ cref(numeric[j]) \in cids =>
                    numeric[j].context = LastContext(cref(numeric[j]))
              /\ uref(numeric[j]) \in uids =>
                    numeric[j].unit = LastUnit(uref(numeric[j]))
C11_Witness ==
    LET cs == _get_context_elements(soup)
        us == _get_unit_elements(soup)
    IN  /\ pc = "done"
        /\ Len(cs) = 2 /\ cs[1].attrs["id"] = "c2" /\ cs[2].attrs["id"] = "c2"
        /\ build_context(cs[1]) # build_context(cs[2])
        /\ Len(us) = 2 /\ us[1].attrs["id"] = "u1" /\ us[2].attrs["id"] = "u1"
        /\ child_text(us[1], MeasureNames) # child_text(us[2], MeasureNames)
        /\ \E j \in 1..Len(nonnumeric) :
              nonnumeric[j].context = build_context(cs[2])
        /\ \E j \in 1..Len(numeric) :
              /\ numeric[j].context = build_context(cs[2])
              /\ numeric[j].unit = child_text(us[2], MeasureNames)

====
